---------------------------- MODULE Spec2Model ----------------------------
(***************************************************************************)
(* The disk cache of es_connector.py: the decorator `cacheable`, whose     *)
(* wrapper derives a file name from the keyword arguments of the call,     *)
(* looks the file up in cache_dir, and either unpickles it or calls the    *)
(* decorated method and pickles its result.                                *)
(*                                                                         *)
(* Four specifications share the variables:                                *)
(*   SpecKey     the derivation of the cache file name (a pure function),  *)
(*               applied to a call p and to a variant q of it;             *)
(*   Spec        one caller invoking the wrapped method again and again;   *)
(*   SpecConc    two callers whose wrapper steps interleave;               *)
(*   SpecEngine  one caller of get_df through the wrapper, and put_df, on  *)
(*               an engine whose index put_df creates and fills.           *)
(***************************************************************************)
EXTENDS Integers, Sequences, FiniteSets, TLC

(***************************************************************************)
(* Bounds of the model.                                                    *)
(***************************************************************************)
\* filter pairs (positive and negative together) of one call
MaxPairs == 2
\* rows of a dataframe returned by the decorated method
MaxRows == 2

(***************************************************************************)
(* Python values that appear as keyword arguments.  A value keeps its type *)
(* (t): the wrapper tests isinstance, str() prints by type, and == and <   *)
(* compare bool and int by number.                                         *)
(***************************************************************************)
PyNone == [t |-> "NoneType", n |-> 0, s |-> ""]
PyInt(i) == [t |-> "int", n |-> i, s |-> ""]
PyBool(b) == [t |-> "bool", n |-> IF b THEN 1 ELSE 0, s |-> ""]
PyStr(x) == [t |-> "str", n |-> 0, s |-> x]
\* the list [i], a value that cannot be hashed
PyListOf(i) == [t |-> "list", n |-> i, s |-> ""]
\* datetime(2024, 1, 1 + day, hour): n counts the hours since 2024-01-01 00:00
PyDatetime(day, hour) == [t |-> "datetime", n |-> day * 24 + hour, s |-> ""]

\* bool(v), as `or` uses it
Truthy(v) ==
    CASE v.t = "NoneType" -> FALSE
      [] v.t = "str" -> v.s # ""
      [] v.t = "datetime" -> TRUE
      [] v.t = "list" -> TRUE
      [] OTHER -> v.n # 0

\* datetime.strftime('%Y-%m-%d'): the calendar day, the time of day dropped
strftime(v) ==
    CASE v.n \div 24 = 0 -> "2024-01-01"
      [] v.n \div 24 = 1 -> "2024-01-02"
      [] OTHER -> "2024-01-03"

\* str(v), which '{}'.format(v) prints
PyFormat(v) ==
    CASE v.t = "NoneType" -> "None"
      [] v.t = "str" -> v.s
      [] v.t = "bool" -> (IF v.n = 1 THEN "True" ELSE "False")
      [] v.t = "int" -> ToString(v.n)
      [] v.t = "list" -> "[" \o ToString(v.n) \o "]"
      [] OTHER -> strftime(v) \o (IF v.n % 24 < 10 THEN " 0" ELSE " ")
                              \o ToString(v.n % 24) \o ":00:00"

\* repr(v), which str() of a list prints for each element
PyRepr(v) == IF v.t = "str" THEN "'" \o v.s \o "'" ELSE PyFormat(v)

\* v == w for the values a filter holds: bool and int compare by number
PyEq(v, w) ==
    IF v.t \in {"int", "bool"} /\ w.t \in {"int", "bool"}
    THEN v.n = w.n
    ELSE v = w

\* v < w for numbers
PyLess(v, w) == v.n < w.n

(***************************************************************************)
(* Filter pairs (name, value).  Field names are ordered as Python orders   *)
(* str: "a" < "b".                                                         *)
(***************************************************************************)
Fields == {"a", "b"}
FieldRank(f) == IF f = "a" THEN 1 ELSE 2
Values == {PyInt(1), PyInt(2), PyBool(TRUE)}
\* the pairs the calls draw from: under "a" two values that compare equal
\* (1 == True) and a greater one, under "b" one value
Pairs == {<<"a", PyInt(1)>>, <<"a", PyBool(TRUE)>>, <<"a", PyInt(2)>>, <<"b", PyInt(1)>>}

\* tuple comparison (name, value) < (name', value'): the first item that
\* differs (by ==) decides
TupleLess(x, y) ==
    IF x[1] # y[1] THEN FieldRank(x[1]) < FieldRank(y[1])
    ELSE IF PyEq(x[2], y[2]) THEN FALSE
    ELSE PyLess(x[2], y[2])

\* one insertion of list.sort(): x goes after every element not greater than
\* it, so that equal elements keep their order (the sort is stable)
RECURSIVE Insert(_, _)
Insert(x, sorted) ==
    IF sorted = <<>> THEN <<x>>
    ELSE IF TupleLess(x, sorted[Len(sorted)])
         THEN Insert(x, SubSeq(sorted, 1, Len(sorted) - 1)) \o <<sorted[Len(sorted)]>>
         ELSE sorted \o <<x>>

\* query_params.sort()
RECURSIVE SortUpTo(_, _)
SortUpTo(l, k) == IF k = 0 THEN <<>> ELSE Insert(l[k], SortUpTo(l, k - 1))

\* the list left in the order the arguments gave it
sortSkipped(l) == l

sort(l) == SortUpTo(l, Len(l))

\* v < w is defined: between numbers, between strs, between lists
Comparable(v, w) ==
    \/ v.t \in {"int", "bool"} /\ w.t \in {"int", "bool"}
    \/ v.t = w.t /\ v.t \in {"str", "list"}

\* query_params.sort() raises TypeError: it compares two tuples of the same
\* name whose values are not equal and have no order ('<' not supported)
SortRaises(l) ==
    \E i, j \in 1..Len(l) :
        /\ l[i][1] = l[j][1]
        /\ ~PyEq(l[i][2], l[j][2])
        /\ ~Comparable(l[i][2], l[j][2])

\* str((name, value))
TupleRepr(x) == "('" \o x[1] \o "', " \o PyRepr(x[2]) \o ")"

RECURSIVE JoinReprs(_, _)
JoinReprs(l, k) ==
    IF k = 0 THEN ""
    ELSE IF k = 1 THEN TupleRepr(l[1])
    ELSE JoinReprs(l, k - 1) \o ", " \o TupleRepr(l[k])

\* str(query_params) of a list of tuples
ListStr(l) == "[" \o JoinReprs(l, Len(l)) \o "]"

\* hashlib.md5(text.encode('utf-8')).hexdigest(), taken as injective: the
\* digest stands for the text it was computed from
md5hex(text) == "md5<" \o text \o ">"

(***************************************************************************)
(* A call of the decorated method, as the wrapper receives it.  A filter   *)
(* argument is a list (isList) or anything else, None included.            *)
(*   query_params_must      list of dicts; a dict is the sequence of its   *)
(*                          items, with distinct names, in insertion order *)
(*   query_params_must_not  list of (name, value) tuples                   *)
(***************************************************************************)
NotAList == [isList |-> FALSE, items |-> <<>>]
PyList(l) == [isList |-> TRUE, items |-> l]

Call(fn, index, start, end, must, must_not) ==
    [fn |-> fn, es_index_name |-> index, start_date |-> start, end_date |-> end,
     query_params_must |-> must, query_params_must_not |-> must_not]

\* line 37: what the wrapper receives in kwargs when the caller passes the
\* first n parameters of get_df by position (es_index_name, doc_type,
\* start_date, end_date, query_params_must, query_params_must_not) and the
\* others by keyword: the positional ones are in args, and kwargs.get gives
\* None for them
kwargs(c, n) ==
    [fn |-> c.fn,
     es_index_name |-> IF n >= 1 THEN PyNone ELSE c.es_index_name,
     start_date |-> IF n >= 3 THEN PyNone ELSE c.start_date,
     end_date |-> IF n >= 4 THEN PyNone ELSE c.end_date,
     query_params_must |-> IF n >= 5 THEN NotAList ELSE c.query_params_must,
     query_params_must_not |-> IF n >= 6 THEN NotAList ELSE c.query_params_must_not]

\* the start date put into the name as str() prints it
start_dateUnformatted(c) ==
    PyFormat(IF Truthy(c.start_date) THEN c.start_date ELSE PyStr("EmptyStartDate"))

\* lines 44-46: kwargs.get('start_date') or 'EmptyStartDate', a datetime formatted
start_date(c) ==
    LET d == IF Truthy(c.start_date) THEN c.start_date ELSE PyStr("EmptyStartDate")
    IN  IF d.t = "datetime" THEN strftime(d) ELSE PyFormat(d)

\* lines 47-49
end_date(c) ==
    LET d == IF Truthy(c.end_date) THEN c.end_date ELSE PyStr("EmptyEndDate")
    IN  IF d.t = "datetime" THEN strftime(d) ELSE PyFormat(d)

\* lines 56-57: the items of every dict, one dict after the other
RECURSIVE Concat(_, _)
Concat(groups, k) == IF k = 0 THEN <<>> ELSE Concat(groups, k - 1) \o groups[k]

\* lines 52-61: the list of tuples of both filter arguments
query_params(c) ==
    (IF c.query_params_must.isList
     THEN Concat(c.query_params_must.items, Len(c.query_params_must.items))
     ELSE <<>>)
    \o
    (IF c.query_params_must_not.isList THEN c.query_params_must_not.items ELSE <<>>)

\* line 64: the texts '{}'.format puts in the place of the function name and
\* of the index name, as they are
FormattedNames(c) == <<c.fn, PyFormat(c.es_index_name)>>

\* line 64
BaseName(c) ==
    FormattedNames(c)[1] \o "_" \o FormattedNames(c)[2] \o "_from_" \o start_date(c)
         \o "_to_" \o end_date(c)

\* the digest appended without the test of line 66
HashSuffixAlways(l) == "_" \o md5hex(ListStr(sort(l)))

\* lines 66-70
HashSuffix(l) == IF Len(l) > 0 THEN "_" \o md5hex(ListStr(sort(l))) ELSE ""

\* lines 41-70: the cache file name of a call
cache_fname(c) == BaseName(c) \o HashSuffix(query_params(c))

(***************************************************************************)
(* Results and their pickles.  The decorated method returns a dataframe,   *)
(* here the sequence of its rows.  A pickle is a byte string: a protocol   *)
(* header, the rows, and the STOP opcode that ends it.                     *)
(***************************************************************************)
DataFrames == {[i \in 1..n |-> "row"] : n \in 0..MaxRows}

\* the pickle of an empty dataframe, whatever the result
PickleNothing(df) == <<"PROTO", "STOP">>

\* pickle.dump(result, output, pickle.HIGHEST_PROTOCOL): the bytes written
Pickle(df) == <<"PROTO">> \o df \o <<"STOP">>

\* the first STOP opcode of a byte string, 0 when it has none
StopAt(bytes) ==
    IF \E i \in 1..Len(bytes) : bytes[i] = "STOP"
    THEN CHOOSE i \in 1..Len(bytes) :
            bytes[i] = "STOP" /\ \A j \in 1..(i - 1) : bytes[j] # "STOP"
    ELSE 0

\* pickle.load succeeds: a header, then opcodes up to a STOP; what follows the
\* STOP is not read
Loadable(bytes) == Len(bytes) >= 2 /\ bytes[1] = "PROTO" /\ StopAt(bytes) >= 2

\* pickle.load(input)
Unpickle(bytes) == SubSeq(bytes, 2, StopAt(bytes) - 1)

\* the bytes put after what the file holds, as a file opened with 'ab' is written
WriteAtEnd(old, bytes) == old \o bytes

\* a file opened with 'wb' is written from offset 0: the bytes replace the
\* head of what another writer has put there since the file was truncated
WriteAt0(old, bytes) == bytes \o SubSeq(old, Len(bytes) + 1, Len(old))

(***************************************************************************)
(* The calls the callers make: CallA and CallA2 derive the same file name  *)
(* (the pair is a positive filter in one, a negative filter in the other), *)
(* CallC derives another.                                                  *)
(***************************************************************************)
CallA ==
    Call("get_df", PyStr("idx"), PyDatetime(0, 0), PyNone,
         PyList(<< << <<"a", PyInt(1)>> >> >>), NotAList)
CallA2 ==
    Call("get_df", PyStr("idx"), PyDatetime(0, 0), PyNone,
         PyList(<<>>), PyList(<< <<"a", PyInt(1)>> >>))
CallC == Call("get_df", PyStr("idx2"), PyNone, PyNone, NotAList, NotAList)
InvokeCalls == {CallA, CallA2, CallC}

\* calls whose filter values are not what the filters are documented to hold:
\* two values of one field that have no order, and a value that has no hash
CallUnorderable ==
    Call("get_df", PyStr("idx2"), PyNone, PyNone,
         PyList(<< << <<"a", PyInt(1)>> >> >>), PyList(<< <<"a", PyStr("x")>> >>))
CallUnhashable ==
    Call("get_df", PyStr("idx2"), PyNone, PyNone,
         PyList(<< << <<"a", PyListOf(1)>> >> >>), NotAList)
MalformedCalls == {CallUnorderable, CallUnhashable}

\* the files of cache_dir the calls can name
CacheFiles == {cache_fname(c) : c \in InvokeCalls \cup {CallUnhashable}}

Callers == {"c1", "c2"}
NoKey == ""
NoFile == [exists |-> FALSE, bytes |-> <<>>]
File(bytes) == [exists |-> TRUE, bytes |-> bytes]
NoOutcome == [kind |-> "none", value |-> <<>>, exc |-> ""]
Returned(df) == [kind |-> "return", value |-> df, exc |-> ""]
Raised(e) == [kind |-> "raise", value |-> <<>>, exc |-> e]
NoPrev == [key |-> NoKey, args |-> CallC, outcome |-> NoOutcome, trace |-> <<>>]

\* the engine's indices, and put_df's state: where the call is, its index and
\* dataframe, what it returned
EngineIndices == {"idx2"}
NoIndex == [exists |-> FALSE, docs |-> 0]
NoPut == [pc |-> "idle", es_index_name |-> "idx2", df |-> <<>>, returned |-> "nothing yet"]

(***************************************************************************)
(* State.                                                                  *)
(*   p, q, phase, edit   SpecKey: a call p, a variant q of it, and how q   *)
(*                       was obtained from p                               *)
(*   caching_on          the module's switch                               *)
(*   store               cache_dir: for each file name, whether the file   *)
(*                       exists and its bytes                              *)
(*   pc                  where each caller is in the wrapper               *)
(*   args, key           the call in progress and its cache_fname ("" when *)
(*                       the wrapper derived none)                         *)
(*   result              what the decorated method returned to the wrapper *)
(*   outcome             what the wrapper gave the caller: a value         *)
(*                       returned or an exception raised                   *)
(*   trace               the file operations and method calls of the       *)
(*                       invocation, in order                              *)
(*   prev                Spec: the invocation completed before the one in  *)
(*                       progress                                          *)
(*   indices             SpecEngine: for each index of the engine, whether *)
(*                       it exists and how many documents it holds         *)
(*   put                 SpecEngine: the put_df call in progress or last   *)
(*                       completed                                         *)
(***************************************************************************)
VARIABLES p, q, phase, edit, caching_on, store, pc, args, key, result, outcome,
          trace, prev, indices, put

keyVars == <<p, q, phase, edit>>

wrapperVars == <<caching_on, store, pc, args, key, result, outcome, trace, prev>>

engineVars == <<indices, put>>

vars == <<p, q, phase, edit, caching_on, store, pc, args, key, result, outcome,
          trace, prev, indices, put>>

(***************************************************************************)
(* SpecKey: the inputs of cache_fname.  The call p is built argument by    *)
(* argument (phase "build", q = p).  Then either q is rearranged, any      *)
(* number of times, by steps that keep the set of its filter pairs (phase  *)
(* "permute"), or exactly one of its arguments is changed (phase           *)
(* "changed", edit names the argument).                                    *)
(***************************************************************************)
FunctionNames == {"get_df", "get"}
\* "logs/2024" holds a path separator
IndexNames == {PyStr("idx"), PyStr("idx2"), PyStr("logs/2024")}
\* unset, datetimes, and a date already formatted as text
StartDates == {PyNone, PyDatetime(0, 0), PyDatetime(0, 12), PyDatetime(1, 0),
               PyStr("2024-01-01")}
EndDates == {PyNone, PyDatetime(1, 0), PyDatetime(1, 12), PyStr("2024-01-02")}

Dicts(c) == c.query_params_must.items
Tuples(c) == c.query_params_must_not.items
Names(dict) == {dict[i][1] : i \in 1..Len(dict)}
RemoveAt(l, i) == SubSeq(l, 1, i - 1) \o SubSeq(l, i + 1, Len(l))
SwapAt(l, i) == [l EXCEPT ![i] = l[i + 1], ![i + 1] = l[i]]
WithMust(c, dicts) == [c EXCEPT !.query_params_must = PyList(dicts)]
WithMustNot(c, tuples) == [c EXCEPT !.query_params_must_not = PyList(tuples)]

\* the calls that pass one more argument, or one more filter pair, than c
Extended(c) ==
    (IF c.query_params_must.isList THEN {} ELSE {WithMust(c, <<>>)})
    \cup (IF c.query_params_must_not.isList THEN {} ELSE {WithMustNot(c, <<>>)})
    \cup {WithMust(c, Append(Dicts(c), <<>>)) :
            x \in {y \in {1} : c.query_params_must.isList /\ Len(Dicts(c)) < MaxPairs}}
    \cup {WithMust(c, [Dicts(c) EXCEPT ![g[1]] = Append(@, g[2])]) :
            g \in {h \in (1..Len(Dicts(c))) \X Pairs :
                     /\ Len(query_params(c)) < MaxPairs
                     /\ h[2][1] \notin Names(Dicts(c)[h[1]])}}
    \cup {WithMustNot(c, Append(Tuples(c), x)) :
            x \in {y \in Pairs : /\ c.query_params_must_not.isList
                                 /\ Len(query_params(c)) < MaxPairs}}

\* the calls that pass the filter pairs of c in another order or grouping
Rearranged(c) ==
    {WithMust(c, SwapAt(Dicts(c), g)) : g \in 1..(Len(Dicts(c)) - 1)}
    \cup {WithMust(c, [Dicts(c) EXCEPT ![g[1]] = SwapAt(@, g[2])]) :
            g \in {h \in (1..Len(Dicts(c))) \X (1..MaxPairs) :
                     h[2] < Len(Dicts(c)[h[1]])}}
    \cup {WithMustNot(c, SwapAt(Tuples(c), i)) : i \in 1..(Len(Tuples(c)) - 1)}
    \* the last item of one dict moved to another dict
    \cup {WithMust(c, [Dicts(c) EXCEPT
                         ![g[1]] = SubSeq(@, 1, Len(@) - 1),
                         ![g[2]] = Append(@, Dicts(c)[g[1]][Len(Dicts(c)[g[1]])])]) :
            g \in {h \in (1..Len(Dicts(c))) \X (1..Len(Dicts(c))) :
                     /\ h[1] # h[2]
                     /\ Dicts(c)[h[1]] # <<>>
                     /\ Dicts(c)[h[1]][Len(Dicts(c)[h[1]])][1] \notin Names(Dicts(c)[h[2]])}}
    \* the last item of a dict moved to the negative filters
    \cup {[c EXCEPT !.query_params_must = PyList([Dicts(c) EXCEPT ![g] = SubSeq(@, 1, Len(@) - 1)]),
                    !.query_params_must_not = PyList(Append(Tuples(c), Dicts(c)[g][Len(Dicts(c)[g])]))] :
            g \in {h \in 1..Len(Dicts(c)) :
                     c.query_params_must_not.isList /\ Dicts(c)[h] # <<>>}}

\* the calls that pass one filter pair of c once more
Repeated(c) ==
    IF Len(query_params(c)) >= MaxPairs THEN {}
    ELSE {WithMust(c, [Dicts(c) EXCEPT ![g[1]] = Append(@, query_params(c)[g[2]])]) :
            g \in {h \in (1..Len(Dicts(c))) \X (1..Len(query_params(c))) :
                     query_params(c)[h[2]][1] \notin Names(Dicts(c)[h[1]])}}
         \cup {WithMustNot(c, Append(Tuples(c), query_params(c)[i])) :
                 i \in {j \in 1..Len(query_params(c)) : c.query_params_must_not.isList}}

\* the calls that leave out an empty dict or an empty list of c
Trimmed(c) ==
    {WithMust(c, RemoveAt(Dicts(c), g)) : g \in {h \in 1..Len(Dicts(c)) : Dicts(c)[h] = <<>>}}
    \cup {[c EXCEPT !.query_params_must = NotAList] :
            x \in {y \in {1} : c.query_params_must.isList /\ Dicts(c) = <<>>}}
    \cup {[c EXCEPT !.query_params_must_not = NotAList] :
            x \in {y \in {1} : c.query_params_must_not.isList /\ Tuples(c) = <<>>}}

\* the calls that pass one filter pair more than c
OnePairAdded(c) == {d \in Extended(c) : Len(query_params(d)) = Len(query_params(c)) + 1}

\* the calls that pass one filter pair less than c
OnePairRemoved(c) ==
    {WithMust(c, [Dicts(c) EXCEPT ![g[1]] = RemoveAt(@, g[2])]) :
        g \in {h \in (1..Len(Dicts(c))) \X (1..MaxPairs) : h[2] <= Len(Dicts(c)[h[1]])}}
    \cup {WithMustNot(c, RemoveAt(Tuples(c), i)) : i \in 1..Len(Tuples(c))}

\* the calls that pass another value in one filter pair of c
OnePairAltered(c) ==
    {WithMust(c, [Dicts(c) EXCEPT ![g[1]][g[2]][2] = g[3]]) :
        g \in {h \in (1..Len(Dicts(c))) \X (1..MaxPairs) \X Values :
                 /\ h[2] <= Len(Dicts(c)[h[1]])
                 /\ <<Dicts(c)[h[1]][h[2]][1], h[3]>> \in Pairs
                 /\ Dicts(c)[h[1]][h[2]][2] # h[3]}}
    \cup {WithMustNot(c, [Tuples(c) EXCEPT ![g[1]][2] = g[2]]) :
            g \in {h \in (1..Len(Tuples(c))) \X Values :
                     /\ <<Tuples(c)[h[1]][1], h[2]>> \in Pairs
                     /\ Tuples(c)[h[1]][2] # h[2]}}

InitKey ==
    /\ p \in {Call("get_df", PyStr("idx"), PyNone, PyNone, NotAList, NotAList),
              Call("get_df", PyStr("idx"), PyDatetime(0, 0), PyDatetime(1, 0),
                   NotAList, NotAList)}
    /\ q = p
    /\ phase = "build"
    /\ edit = "none"
    /\ caching_on = TRUE
    /\ store = [f \in CacheFiles |-> NoFile]
    /\ pc = [c \in Callers |-> "idle"]
    /\ args = [c \in Callers |-> CallC]
    /\ key = [c \in Callers |-> NoKey]
    /\ result = [c \in Callers |-> <<>>]
    /\ outcome = [c \in Callers |-> NoOutcome]
    /\ trace = [c \in Callers |-> <<>>]
    /\ prev = NoPrev
    /\ indices = [i \in EngineIndices |-> NoIndex]
    /\ put = NoPut

Build ==
    /\ phase = "build"
    /\ p' \in Extended(p)
    /\ q' = p'
    /\ UNCHANGED <<phase, edit>>
    /\ UNCHANGED <<wrapperVars, engineVars>>

Rearrange ==
    /\ phase \in {"build", "permute"}
    /\ q' \in Rearranged(q)
    /\ phase' = "permute"
    /\ UNCHANGED <<p, edit>>
    /\ UNCHANGED <<wrapperVars, engineVars>>

Repeat ==
    /\ phase \in {"build", "permute"}
    /\ q' \in Repeated(q)
    /\ phase' = "permute"
    /\ UNCHANGED <<p, edit>>
    /\ UNCHANGED <<wrapperVars, engineVars>>

Trim ==
    /\ phase \in {"build", "permute"}
    /\ q' \in Trimmed(q)
    /\ phase' = "permute"
    /\ UNCHANGED <<p, edit>>
    /\ UNCHANGED <<wrapperVars, engineVars>>

Changed(c, what) ==
    /\ phase = "build"
    /\ q' = c
    /\ phase' = "changed"
    /\ edit' = what
    /\ UNCHANGED p
    /\ UNCHANGED <<wrapperVars, engineVars>>

ChangeFn == \E f \in FunctionNames \ {q.fn} : Changed([q EXCEPT !.fn = f], "fn")

ChangeIndex ==
    \E i \in IndexNames \ {q.es_index_name} : Changed([q EXCEPT !.es_index_name = i], "index")

ChangeStart ==
    \E d \in StartDates \ {q.start_date} : Changed([q EXCEPT !.start_date = d], "start")

ChangeEnd ==
    \E d \in EndDates \ {q.end_date} : Changed([q EXCEPT !.end_date = d], "end")

AddPair == \E c \in OnePairAdded(q) : Changed(c, "pair")

RemovePair == \E c \in OnePairRemoved(q) : Changed(c, "pair")

AlterPair == \E c \in OnePairAltered(q) : Changed(c, "pair")

NextKey ==
    \/ Build
    \/ Rearrange
    \/ Repeat
    \/ Trim
    \/ ChangeFn
    \/ ChangeIndex
    \/ ChangeStart
    \/ ChangeEnd
    \/ AddPair
    \/ RemovePair
    \/ AlterPair

SpecKey == InitKey /\ [][NextKey]_vars

(***************************************************************************)
(* The wrapper, one action per step of a caller c.                         *)
(***************************************************************************)
\* caching_on not consulted
BypassNever(on) == FALSE

\* line 38: the wrapper goes straight to the method
Bypass(on) == ~on

Finish(c, o) ==
    /\ outcome' = [outcome EXCEPT ![c] = o]
    /\ pc' = [pc EXCEPT ![c] = "idle"]

Did(c, what) == trace' = [trace EXCEPT ![c] = Append(@, what)]

\* lines 37-73: the call enters the wrapper, which reads caching_on and, with
\* caching on, derives the file name.  remember: keep the caller's last
\* invocation in prev
Enter(c, a, remember) ==
    /\ pc[c] = "idle"
    /\ args' = [args EXCEPT ![c] = a]
    /\ result' = [result EXCEPT ![c] = <<>>]
    /\ trace' = [trace EXCEPT ![c] = <<>>]
    /\ prev' = IF remember /\ outcome[c].kind # "none"
               THEN [key |-> key[c], args |-> args[c], outcome |-> outcome[c],
                     trace |-> trace[c]]
               ELSE prev
    /\ CASE Bypass(caching_on) ->
              /\ key' = [key EXCEPT ![c] = NoKey]
              /\ outcome' = [outcome EXCEPT ![c] = NoOutcome]
              /\ pc' = [pc EXCEPT ![c] = "bypass"]
         [] ~Bypass(caching_on) /\ SortRaises(query_params(a)) ->
              \* line 68 raises and the exception leaves the wrapper
              /\ key' = [key EXCEPT ![c] = NoKey]
              /\ outcome' = [outcome EXCEPT ![c] = Raised("TypeError")]
              /\ pc' = [pc EXCEPT ![c] = "idle"]
         [] OTHER ->
              /\ key' = [key EXCEPT ![c] = cache_fname(a)]
              /\ outcome' = [outcome EXCEPT ![c] = NoOutcome]
              /\ pc' = [pc EXCEPT ![c] = "lookup"]
    /\ UNCHANGED <<caching_on, store>>
    /\ UNCHANGED <<keyVars, engineVars>>

\* line 39, the method returns
BypassReturns(c) ==
    /\ pc[c] = "bypass"
    /\ \E df \in DataFrames :
          /\ result' = [result EXCEPT ![c] = df]
          /\ Finish(c, Returned(df))
    /\ Did(c, "method")
    /\ UNCHANGED <<caching_on, store, args, key, prev>>
    /\ UNCHANGED <<keyVars, engineVars>>

\* line 39, the method raises
BypassRaises(c) ==
    /\ pc[c] = "bypass"
    /\ Finish(c, Raised("MethodError"))
    /\ Did(c, "method")
    /\ UNCHANGED <<caching_on, store, args, key, result, prev>>
    /\ UNCHANGED <<keyVars, engineVars>>

\* the file looked up where it never is
LookupMisses(c) ==
    /\ pc[c] = "lookup"
    /\ pc' = [pc EXCEPT ![c] = "call"]
    /\ Did(c, "is_file")
    /\ UNCHANGED <<caching_on, store, args, key, result, outcome, prev>>
    /\ UNCHANGED <<keyVars, engineVars>>

\* line 74: cache_fpath.is_file()
Lookup(c) ==
    /\ pc[c] = "lookup"
    /\ pc' = [pc EXCEPT ![c] = IF store[key[c]].exists THEN "load" ELSE "call"]
    /\ Did(c, "is_file")
    /\ UNCHANGED <<caching_on, store, args, key, result, outcome, prev>>
    /\ UNCHANGED <<keyVars, engineVars>>

\* lines 75-78: the file is opened and unpickled; an exception of pickle.load
\* leaves the wrapper
Load(c) ==
    /\ pc[c] = "load"
    /\ Finish(c, IF Loadable(store[key[c]].bytes)
                 THEN Returned(Unpickle(store[key[c]].bytes))
                 ELSE Raised("UnpicklingError"))
    /\ Did(c, "load")
    /\ UNCHANGED <<caching_on, store, args, key, result, prev>>
    /\ UNCHANGED <<keyVars, engineVars>>

\* line 80, the method returns
MethodReturns(c) ==
    /\ pc[c] = "call"
    /\ \E df \in DataFrames : result' = [result EXCEPT ![c] = df]
    /\ pc' = [pc EXCEPT ![c] = "open"]
    /\ Did(c, "method")
    /\ UNCHANGED <<caching_on, store, args, key, outcome, prev>>
    /\ UNCHANGED <<keyVars, engineVars>>

\* the file opened for writing before the method is called
MethodRaisesAfterOpen(c) ==
    /\ pc[c] = "call"
    /\ store' = [store EXCEPT ![key[c]] = File(<<>>)]
    /\ Finish(c, Raised("MethodError"))
    /\ Did(c, "method")
    /\ UNCHANGED <<caching_on, args, key, result, prev>>
    /\ UNCHANGED <<keyVars, engineVars>>

\* line 80, the method raises
MethodRaises(c) ==
    /\ pc[c] = "call"
    /\ Finish(c, Raised("MethodError"))
    /\ Did(c, "method")
    /\ UNCHANGED <<caching_on, store, args, key, result, prev>>
    /\ UNCHANGED <<keyVars, engineVars>>

\* line 81: open(cache_fpath, 'wb') creates the file, or empties it
OpenForWrite(c) ==
    /\ pc[c] = "open"
    /\ store' = [store EXCEPT ![key[c]] = File(<<>>)]
    /\ pc' = [pc EXCEPT ![c] = "dump"]
    /\ Did(c, "open_wb")
    /\ UNCHANGED <<caching_on, args, key, result, outcome, prev>>
    /\ UNCHANGED <<keyVars, engineVars>>

\* line 81, open raises (cache_dir gone, no permission, no space)
OpenFails(c) ==
    /\ pc[c] = "open"
    /\ Finish(c, Raised("OSError"))
    /\ Did(c, "open_wb")
    /\ UNCHANGED <<caching_on, store, args, key, result, prev>>
    /\ UNCHANGED <<keyVars, engineVars>>

\* an empty dataframe not kept: its file is removed instead of written
DumpUnlessEmpty(c) ==
    /\ pc[c] = "dump"
    /\ store' = [store EXCEPT ![key[c]] =
                    IF result[c] = <<>> THEN NoFile
                    ELSE File(WriteAt0(@.bytes, Pickle(result[c])))]
    /\ Finish(c, Returned(result[c]))
    /\ Did(c, "dump")
    /\ UNCHANGED <<caching_on, args, key, result, prev>>
    /\ UNCHANGED <<keyVars, engineVars>>

\* lines 82-84: the result is pickled into the file and returned
Dump(c) ==
    /\ pc[c] = "dump"
    /\ store' = [store EXCEPT ![key[c]] = File(WriteAt0(@.bytes, Pickle(result[c])))]
    /\ Finish(c, Returned(result[c]))
    /\ Did(c, "dump")
    /\ UNCHANGED <<caching_on, args, key, result, prev>>
    /\ UNCHANGED <<keyVars, engineVars>>

\* line 82, pickle.dump raises after n bytes; the with statement closes the
\* file, which keeps them
DumpFails(c) ==
    /\ pc[c] = "dump"
    /\ \E n \in 0..(Len(Pickle(result[c])) - 1) :
          store' = [store EXCEPT
                      ![key[c]] = File(WriteAt0(@.bytes, SubSeq(Pickle(result[c]), 1, n)))]
    /\ Finish(c, Raised("DumpError"))
    /\ Did(c, "dump")
    /\ UNCHANGED <<caching_on, args, key, result, prev>>
    /\ UNCHANGED <<keyVars, engineVars>>

\* line 18: the program sets caching_on between two invocations
SetCaching ==
    /\ \A c \in Callers : pc[c] = "idle"
    /\ caching_on' = ~caching_on
    /\ UNCHANGED <<store, pc, args, key, result, outcome, trace, prev>>
    /\ UNCHANGED <<keyVars, engineVars>>

InitWrapper ==
    /\ p = CallC
    /\ q = CallC
    /\ phase = "build"
    /\ edit = "none"
    /\ caching_on \in BOOLEAN
    /\ store = [f \in CacheFiles |-> NoFile]
    /\ pc = [c \in Callers |-> "idle"]
    /\ args = [c \in Callers |-> CallC]
    /\ key = [c \in Callers |-> NoKey]
    /\ result = [c \in Callers |-> <<>>]
    /\ outcome = [c \in Callers |-> NoOutcome]
    /\ trace = [c \in Callers |-> <<>>]
    /\ prev = NoPrev
    /\ indices = [i \in EngineIndices |-> NoIndex]
    /\ put = NoPut

(***************************************************************************)
(* Spec: one caller, whose invocations follow one another.                 *)
(***************************************************************************)
Invoke == \E a \in InvokeCalls : Enter("c1", a, TRUE)

Init == InitWrapper

Next ==
    \/ Invoke
    \/ BypassReturns("c1")
    \/ BypassRaises("c1")
    \/ Lookup("c1")
    \/ Load("c1")
    \/ MethodReturns("c1")
    \/ MethodRaises("c1")
    \/ OpenForWrite("c1")
    \/ OpenFails("c1")
    \/ Dump("c1")
    \/ DumpFails("c1")
    \/ SetCaching

Spec == Init /\ [][Next]_vars

(***************************************************************************)
(* SpecConc: two callers (threads or processes sharing cache_dir) whose    *)
(* wrapper steps interleave; caching stays on.                             *)
(***************************************************************************)
InvokeConc(c) == \E a \in InvokeCalls : Enter(c, a, FALSE)

InitConc == InitWrapper /\ caching_on = TRUE

NextConc ==
    \E c \in Callers :
        \/ InvokeConc(c)
        \/ Lookup(c)
        \/ Load(c)
        \/ MethodReturns(c)
        \/ MethodRaises(c)
        \/ OpenForWrite(c)
        \/ OpenFails(c)
        \/ Dump(c)
        \/ DumpFails(c)

SpecConc == InitConc /\ [][NextConc]_vars

(***************************************************************************)
(* The engine behind get_df and put_df.  An index exists or not and holds  *)
(* a number of documents; put_df creates it and adds documents, get_df     *)
(* reads them.  The client's calls are opaque: each returns or raises.     *)
(***************************************************************************)
IndexOf(a) == a.es_index_name.s

\* lines 240-279: the query restricts the documents (a range filter when both
\* dates are given, should filters when query_params_must is a list with
\* items); without either it matches every document of the index
Restricts(a) ==
    \/ Truthy(a.start_date) /\ Truthy(a.end_date)
    \/ a.query_params_must.isList /\ Len(a.query_params_must.items) > 0

\* the numbers of documents the scan of lines 292-299 can yield
Matching(a, docs) == IF Restricts(a) THEN 0..docs ELSE {docs}

Rows(n) == [i \in 1..n |-> "row"]

\* lines 236-238: the index does not exist, get_df returns an empty dataframe
GetDfNoIndex(c) ==
    /\ pc[c] = "call"
    /\ ~indices[IndexOf(args[c])].exists
    /\ result' = [result EXCEPT ![c] = <<>>]
    /\ pc' = [pc EXCEPT ![c] = "open"]
    /\ Did(c, "get_df: no index")
    /\ UNCHANGED <<caching_on, store, args, key, outcome, prev>>
    /\ UNCHANGED <<keyVars, engineVars>>

\* lines 240-310: the index exists, get_df returns the documents the scan yields
GetDfScans(c) ==
    /\ pc[c] = "call"
    /\ indices[IndexOf(args[c])].exists
    /\ \E n \in Matching(args[c], indices[IndexOf(args[c])].docs) :
          result' = [result EXCEPT ![c] = Rows(n)]
    /\ pc' = [pc EXCEPT ![c] = "open"]
    /\ Did(c, "get_df: scan")
    /\ UNCHANGED <<caching_on, store, args, key, outcome, prev>>
    /\ UNCHANGED <<keyVars, engineVars>>

\* lines 236, 292-303: a call of the client raises, get_df catches nothing
GetDfRaises(c) ==
    /\ pc[c] = "call"
    /\ Finish(c, Raised("MethodError"))
    /\ Did(c, "get_df: raises")
    /\ UNCHANGED <<caching_on, store, args, key, result, prev>>
    /\ UNCHANGED <<keyVars, engineVars>>

PutReturns(value) == put' = [put EXCEPT !.pc = "idle", !.returned = value]

\* lines 163-167 and the end of the function: put_df asks whether the index
\* exists.  If not it goes on to create it; if it does, nothing of the body
\* applies (lines 164-200 are the body of the if) and the function ends
\* without a return statement
PutDf(i, df) ==
    /\ put.pc = "idle"
    /\ indices[i].docs + Len(df) <= MaxRows
    /\ put' = IF indices[i].exists
              THEN [pc |-> "idle", es_index_name |-> i, df |-> df, returned |-> "None"]
              ELSE [pc |-> "create", es_index_name |-> i, df |-> df,
                    returned |-> "nothing yet"]
    /\ UNCHANGED indices
    /\ UNCHANGED <<keyVars, wrapperVars>>

\* lines 167, 99-126: create_es_index returns True
CreateAcknowledged ==
    /\ put.pc = "create"
    /\ indices' = [indices EXCEPT ![put.es_index_name].exists = TRUE]
    /\ put' = [put EXCEPT !.pc = "bulk"]
    /\ UNCHANGED <<keyVars, wrapperVars>>

\* lines 167-173, 99-126: create_es_index returns False (the response has no
\* truthy 'acknowledge', or the client raised), whether or not the engine
\* created the index; put_df returns False
CreateNotAcknowledged ==
    /\ put.pc = "create"
    /\ \E created \in BOOLEAN :
          indices' = [indices EXCEPT ![put.es_index_name].exists = created]
    /\ PutReturns("False")
    /\ UNCHANGED <<keyVars, wrapperVars>>

\* lines 179-200: bulk reports no failed document, put_df returns True
BulkInserts ==
    /\ put.pc = "bulk"
    /\ indices' = [indices EXCEPT ![put.es_index_name].docs = @ + Len(put.df)]
    /\ PutReturns("True")
    /\ UNCHANGED <<keyVars, wrapperVars>>

\* lines 190-198: bulk reports failed documents (result[1] != 0), put_df
\* returns False; the other documents are in the index
BulkReportsErrors ==
    /\ put.pc = "bulk"
    /\ \E n \in 0..(Len(put.df) - 1) :
          indices' = [indices EXCEPT ![put.es_index_name].docs = @ + n]
    /\ PutReturns("False")
    /\ UNCHANGED <<keyVars, wrapperVars>>

\* line 190: bulk raises (raise_on_error=True, or the connection fails) and
\* the exception leaves put_df
BulkRaises ==
    /\ put.pc = "bulk"
    /\ \E n \in 0..Len(put.df) :
          /\ n < Len(put.df) \/ n = 0
          /\ indices' = [indices EXCEPT ![put.es_index_name].docs = @ + n]
    /\ PutReturns("raise")
    /\ UNCHANGED <<keyVars, wrapperVars>>

(***************************************************************************)
(* The request get_df sends to the engine for a call: the arguments of     *)
(* elasticsearch.helpers.scan.  doc_type and columns are arguments of      *)
(* get_df that the wrapper does not read.                                  *)
(***************************************************************************)
DocTypes == {PyStr("doc"), PyStr("log")}
ColumnLists == {NotAList, PyList(<<"a">>)}

\* bool(l) of a filter or column argument: a list with items
TruthyList(l) == l.isList /\ Len(l.items) > 0

\* lines 240-252: the range filter, present when both dates are given, with
\* the dates as they were passed
RangeFilter(c) ==
    IF Truthy(c.start_date) /\ Truthy(c.end_date)
    THEN <<[gte |-> c.start_date, lte |-> c.end_date]>>
    ELSE <<>>

\* line 269: {name, value} is a set
MustNotParams(c) ==
    IF TruthyList(c.query_params_must_not)
    THEN [i \in 1..Len(c.query_params_must_not.items) |->
             {PyStr(c.query_params_must_not.items[i][1]), c.query_params_must_not.items[i][2]}]
    ELSE <<>>

\* lines 254-279: one should filter for each dict of query_params_must, each
\* with the must_not filters; none when query_params_must has no items
ShouldFilters(c) ==
    IF TruthyList(c.query_params_must)
    THEN [i \in 1..Len(c.query_params_must.items) |->
             [must |-> c.query_params_must.items[i], must_not |-> MustNotParams(c)]]
    ELSE <<>>

\* lines 281-299
ScanRequest(c, doc_type, columns) ==
    [index |-> c.es_index_name,
     doc_type |-> doc_type,
     range |-> RangeFilter(c),
     should |-> ShouldFilters(c),
     source |-> IF TruthyList(columns) THEN columns.items ELSE <<>>]

(***************************************************************************)
(* SpecEngine: one caller of get_df through the wrapper, caching on, and   *)
(* put_df calls on the same engine between and during its invocations.     *)
(***************************************************************************)
EngineCalls == {CallC} \cup MalformedCalls

InvokeEngine == \E a \in EngineCalls : Enter("c1", a, TRUE)

InitEngine == InitWrapper /\ caching_on = TRUE

NextEngine ==
    \/ InvokeEngine
    \/ Lookup("c1")
    \/ Load("c1")
    \/ GetDfNoIndex("c1")
    \/ GetDfScans("c1")
    \/ GetDfRaises("c1")
    \/ OpenForWrite("c1")
    \/ OpenFails("c1")
    \/ Dump("c1")
    \/ DumpFails("c1")
    \/ \E i \in EngineIndices, df \in DataFrames : PutDf(i, df)
    \/ CreateAcknowledged
    \/ CreateNotAcknowledged
    \/ BulkInserts
    \/ BulkReportsErrors
    \/ BulkRaises

SpecEngine == InitEngine /\ [][NextEngine]_vars

(***************************************************************************)
(* Properties.                                                             *)
(***************************************************************************)
Range(l) == {l[i] : i \in 1..Len(l)}

\* the caller's invocation has ended
Completed(c) == pc[c] = "idle" /\ outcome[c].kind # "none"

\* the file operations and method calls of an invocation that missed and stored
MissPath == <<"is_file", "method", "open_wb", "dump">>

\* the file operations of an invocation that found the file
HitPath == <<"is_file", "load">>

(***************************************************************************)
(* C1.  With caching on and no file for the key, two invocations that      *)
(* follow one another with the same parameters call the method once: the   *)
(* first misses, calls the method and stores the result; the second does   *)
(* not call the method and returns a value equal to the first's.           *)
(***************************************************************************)
FirstMissedAndStored ==
    /\ prev.key # NoKey
    /\ prev.trace = MissPath
    /\ prev.outcome.kind = "return"

SameKeyAgain == key["c1"] # NoKey /\ key["c1"] = prev.key

C1_SecondCallServedFromCache ==
    (FirstMissedAndStored /\ SameKeyAgain)
        => /\ "method" \notin Range(trace["c1"])
           /\ pc["c1"] \notin {"call", "open", "dump"}
           /\ Completed("c1") => outcome["c1"] = Returned(prev.outcome.value)

C1_Witness ==
    /\ FirstMissedAndStored
    /\ SameKeyAgain
    /\ args["c1"] = prev.args
    /\ Completed("c1")
    /\ outcome["c1"].value # <<>>

(***************************************************************************)
(* C2.  An invocation with caching on that finds a file it cannot unpickle *)
(* treats it as a miss: it calls the method and returns the method's       *)
(* result.                                                                 *)
(***************************************************************************)
FoundUnreadable(c) ==
    /\ key[c] # NoKey
    /\ "load" \in Range(trace[c])
    /\ ~Loadable(store[key[c]].bytes)

C2_UnreadableEntryIsMiss ==
    \A c \in Callers :
        (Completed(c) /\ FoundUnreadable(c))
            => /\ "method" \in Range(trace[c])
               /\ outcome[c] = Returned(result[c])

(***************************************************************************)
(* C3.  On the miss path, when the method has returned, the invocation     *)
(* returns the method's result even if opening or writing the file fails.  *)
(***************************************************************************)
MethodReturned(c) ==
    /\ key[c] # NoKey
    /\ "method" \in Range(trace[c])
    /\ outcome[c].exc # "MethodError"

C3_WriteFailureStillReturns ==
    \A c \in Callers :
        (Completed(c) /\ MethodReturned(c)) => outcome[c] = Returned(result[c])

(***************************************************************************)
(* C4.  When the method raises, its exception reaches the caller, no file  *)
(* is created for the key, and the next invocation with the same           *)
(* parameters finds no file and calls the method again.                    *)
(***************************************************************************)
\* the invocation ended in the method call: the method did not return
EndedInMethod(c) == Completed(c) /\ trace[c] # <<>> /\ trace[c][Len(trace[c])] = "method"

C4_MethodFailureNotCached ==
    /\ (key["c1"] # NoKey /\ EndedInMethod("c1"))
          => /\ outcome["c1"] = Raised("MethodError")
             /\ trace["c1"] = <<"is_file", "method">>
             /\ ~store[key["c1"]].exists
    /\ (prev.key # NoKey /\ prev.outcome = Raised("MethodError") /\ SameKeyAgain)
          => /\ "load" \notin Range(trace["c1"])
             /\ pc["c1"] # "load"
             /\ Completed("c1") => "method" \in Range(trace["c1"])

C4_Witness ==
    /\ prev.key # NoKey
    /\ prev.outcome = Raised("MethodError")
    /\ SameKeyAgain
    /\ args["c1"] = prev.args
    /\ Completed("c1")
    /\ trace["c1"] = MissPath

(***************************************************************************)
(* C5.  With caching_on false, every invocation calls the method exactly   *)
(* once and hands its result (or its exception) to the caller, derives no  *)
(* file name, and neither reads nor writes cache_dir: the store stays as   *)
(* it is through any sequence of invocations.                              *)
(***************************************************************************)
BypassedCorrectly(c) ==
    /\ pc[c] = "bypass" => trace[c] = <<>>
    /\ Completed(c)
          => /\ trace[c] = <<"method">>
             /\ outcome[c] \in {Returned(result[c]), Raised("MethodError")}

C5_DisabledBypassesStore ==
    /\ [](\A c \in Callers :
            (key[c] = NoKey /\ (pc[c] = "bypass" \/ Completed(c))) => BypassedCorrectly(c))
    /\ [][~caching_on
            => /\ store' = store
               /\ key'["c1"] = NoKey \/ UNCHANGED <<key, pc, trace>>]_vars

C5_Witness ==
    /\ ~caching_on
    /\ \E f \in CacheFiles : store[f].exists
    /\ prev.key = NoKey /\ prev.outcome.kind = "return"
    /\ key["c1"] = NoKey
    /\ Completed("c1")
    /\ outcome["c1"].value # <<>>

(***************************************************************************)
(* C6.  Under invocations that follow one another the store is write-once  *)
(* per key: once a file exists, no later invocation changes or removes it; *)
(* an invocation that finds the file returns its payload without calling   *)
(* the method and without writing; the set of files only grows.            *)
(***************************************************************************)
\* c is between its open(..., 'wb') and its pickle.dump of file f
Writing(c, f) == pc[c] = "dump" /\ key[c] = f

FoundFile(c) == key[c] # NoKey /\ "load" \in Range(trace[c])

C6_WriteOncePerKey ==
    /\ [](\A c \in Callers :
            (Completed(c) /\ FoundFile(c))
                => /\ trace[c] = HitPath
                   /\ outcome[c].kind = "return"
                   /\ Loadable(store[key[c]].bytes)
                   /\ outcome[c].value = Unpickle(store[key[c]].bytes))
    /\ [][\A f \in CacheFiles :
            /\ store[f].exists => store'[f].exists
            /\ (store[f].exists /\ ~Writing("c1", f)) => store'[f] = store[f]]_vars

(***************************************************************************)
(* C7.  Two calls with the same function name, index name and normalized   *)
(* dates and the same flattened set of filter pairs derive the same file   *)
(* name, whatever the order of the dicts, the order of the pairs, their    *)
(* grouping, or the number of times a pair occurs.                         *)
(***************************************************************************)
SameBase(c, d) ==
    /\ c.fn = d.fn
    /\ c.es_index_name = d.es_index_name
    /\ start_date(c) = start_date(d)
    /\ end_date(c) = end_date(d)

PairSet(c) == Range(query_params(c))

Count(x, l) == Cardinality({i \in 1..Len(l) : l[i] = x})

SameBag(c, d) ==
    \A x \in PairSet(c) \cup PairSet(d) :
        Count(x, query_params(c)) = Count(x, query_params(d))

\* pairs that compare equal are the same pair
NoTies(c) ==
    \A x, y \in PairSet(c) : (x[1] = y[1] /\ PyEq(x[2], y[2])) => x = y

SameDate(d, e) == d.t = "datetime" /\ e.t = "str" /\ e.s = strftime(d)

\* one of d and e is a datetime at midnight and the other the text of its day:
\* the same boundary written in two ways
Respelled(d, e) ==
    \/ SameDate(d, e) /\ d.n % 24 = 0
    \/ SameDate(e, d) /\ e.n % 24 = 0

C8_OneChangeChangesKey ==
    /\ edit # "none"
    /\ ~Respelled(p.start_date, q.start_date)
    /\ ~Respelled(p.end_date, q.end_date)
    => cache_fname(q) # cache_fname(p)

(***************************************************************************)
(* C10.  The file name is {function}_{index}_from_{start}_to_{end}, with   *)
(* _{digest} appended if and only if the flattened filter list is not      *)
(* empty; so a call with both filter lists empty and a call with both      *)
(* filters unset derive the same name.                                     *)
(***************************************************************************)
Boundary(d, unset) ==
    CASE d = PyNone -> unset
      [] d.t = "str" -> d.s
      [] OTHER -> strftime(d)

Composed(c) ==
    c.fn \o "_" \o c.es_index_name.s \o "_from_" \o Boundary(c.start_date, "EmptyStartDate")
         \o "_to_" \o Boundary(c.end_date, "EmptyEndDate")

BothEmpty(c) ==
    /\ c.query_params_must = PyList(<<>>)
    /\ c.query_params_must_not = PyList(<<>>)

BothUnset(c) == ~c.query_params_must.isList /\ ~c.query_params_must_not.isList

C10_KeyComposition ==
    /\ \A c \in {p, q} :
          /\ (cache_fname(c) = Composed(c)) <=> (query_params(c) = <<>>)
          /\ query_params(c) # <<>>
                => cache_fname(c) = Composed(c) \o "_" \o md5hex(ListStr(sort(query_params(c))))
    /\ (SameBase(p, q) /\ BothEmpty(p) /\ BothUnset(q)) => cache_fname(p) = cache_fname(q)

C10_Witness ==
    /\ SameBase(p, q) /\ BothEmpty(p) /\ BothUnset(q)
    /\ p.start_date # PyNone
    /\ cache_fname(q) = Composed(p)

(***************************************************************************)
(* C9.  Two concurrent invocations for the same key that both start with   *)
(* no file can both miss, both call the method and both write the file;    *)
(* the file then holds what was written last.                              *)
(***************************************************************************)
C9_LastWriteWins ==
    [][\A c \in Callers :
          (pc[c] = "dump" /\ Completed(c)' /\ outcome'[c].kind = "return")
              => /\ store'[key[c]].exists
                 /\ Loadable(store'[key[c]].bytes)
                 /\ Unpickle(store'[key[c]].bytes) = result[c]]_vars

\* both callers missed, called the method and wrote; c2 wrote last
C9_BothMissedBothWrote ==
    /\ key["c1"] = key["c2"] /\ key["c1"] # NoKey
    /\ \A c \in Callers :
          Completed(c) /\ trace[c] = MissPath /\ outcome[c] = Returned(result[c])
    /\ Len(result["c1"]) > Len(result["c2"])
    /\ Unpickle(store[key["c1"]].bytes) = result["c2"]

(***************************************************************************)
(* C11.  An invocation whose filter values are malformed (values that have *)
(* no order among them, or no hash) fails with an exception before any     *)
(* I/O: the wrapper looks up, reads and writes no file and does not call   *)
(* the method.                                                             *)
(***************************************************************************)
\* the caller is in an invocation or has completed one
Invoked(c) == pc[c] # "idle" \/ outcome[c].kind # "none"

C11_MalformedFailsBeforeIO ==
    Invoked("c1") /\ args["c1"] \in MalformedCalls
        => /\ Completed("c1")
           /\ outcome["c1"].kind = "raise"
           /\ trace["c1"] = <<>>

\* what holds of the two malformed calls: the values without an order raise
\* in the sort, before the lookup
UnorderableRaisesBeforeIO ==
    Invoked("c1") /\ args["c1"] = CallUnorderable
        => /\ Completed("c1")
           /\ outcome["c1"] = Raised("TypeError")
           /\ trace["c1"] = <<>>

\* and the value without a hash is looked up, fetched and stored as any other
UnhashableStored ==
    /\ args["c1"] = CallUnhashable
    /\ Completed("c1")
    /\ outcome["c1"].kind = "return"
    /\ Len(trace["c1"]) = 4

(***************************************************************************)
(* C12.  The file name holds no path separator: the function name and the  *)
(* index name are sanitized before they are put into it, so a name with a  *)
(* separator never reaches the file name as it is.                         *)
(***************************************************************************)
\* the names of the model that hold a path separator
WithSeparator == {"logs/2024"}

C12_NoSeparatorInName ==
    \A c \in {p, q} : \A i \in 1..2 : FormattedNames(c)[i] \notin WithSeparator

(***************************************************************************)
(* C13.  put_df returns a Boolean in every case in which it returns, and   *)
(* whether or not the index existed when it was called, it returns True    *)
(* only after the records of the dataframe have been inserted, and False   *)
(* only after an attempt to create the index or to insert them.            *)
(***************************************************************************)
\* this step ends a put_df call by a return
PutDfReturned == put' # put /\ put'.pc = "idle" /\ put'.returned # "raise"

\* this step is one of create_es_index or bulk
Attempted == put.pc \in {"create", "bulk"}

C13_PutDfInsertsAndReturnsBoolean ==
    [][PutDfReturned =>
          /\ put'.returned \in {"True", "False"}
          /\ put'.returned = "True" =>
                indices'[put'.es_index_name].docs
                    = indices[put'.es_index_name].docs + Len(put'.df)
          /\ put'.returned = "False" => Attempted]_vars

\* what holds of put_df: on an index that exists it inserts nothing and
\* returns None
PutDfOnExistingIndex ==
    [][put.pc = "idle" /\ put' # put /\ indices[put'.es_index_name].exists
          => put'.returned = "None" /\ indices' = indices]_vars

(***************************************************************************)
(* C14.  The dates are normalized before they are put into the file name:  *)
(* an unset date becomes EmptyStartDate or EmptyEndDate and a datetime the *)
(* text YYYY-MM-DD of its day, so that a call with a datetime and the call *)
(* with the text of the same day in its place derive the same file name.   *)
(***************************************************************************)
\* q is p with the date written the other way, as a datetime or as text
StartRespelled ==
    edit = "start" /\ (SameDate(p.start_date, q.start_date) \/ SameDate(q.start_date, p.start_date))

EndRespelled ==
    edit = "end" /\ (SameDate(p.end_date, q.end_date) \/ SameDate(q.end_date, p.end_date))

C14_DatesNormalized ==
    /\ \A c \in {p, q} :
          /\ c.start_date = PyNone => start_date(c) = "EmptyStartDate"
          /\ c.end_date = PyNone => end_date(c) = "EmptyEndDate"
          /\ c.start_date.t = "datetime" => start_date(c) = strftime(c.start_date)
          /\ c.end_date.t = "datetime" => end_date(c) = strftime(c.end_date)
    /\ StartRespelled \/ EndRespelled => cache_fname(q) = cache_fname(p)

\* a datetime replaced by the text of its day, in a call with filters
C14_Witness ==
    /\ StartRespelled
    /\ p.start_date.t = "datetime"
    /\ query_params(p) # <<>>
    /\ cache_fname(q) = cache_fname(p)

(***************************************************************************)
(* C15.  On the miss path the steps come in this order: the method is      *)
(* called, its result is written to the file of the key, the result is     *)
(* returned.  No write to cache_dir begins before the method has returned, *)
(* and the payload the file holds when the invocation returns is the value *)
(* it returns.                                                             *)
(***************************************************************************)
IsPrefix(l, m) == Len(l) <= Len(m) /\ l = SubSeq(m, 1, Len(l))

C15_MissPathOrder ==
    /\ [](/\ "method" \in Range(trace["c1"]) /\ key["c1"] # NoKey
               => IsPrefix(trace["c1"], MissPath)
          /\ Completed("c1") /\ outcome["c1"].kind = "return" /\ "method" \in Range(trace["c1"])
                  /\ key["c1"] # NoKey
               => /\ trace["c1"] = MissPath
                  /\ outcome["c1"] = Returned(result["c1"])
                  /\ store[key["c1"]].exists
                  /\ Loadable(store[key["c1"]].bytes)
                  /\ Unpickle(store[key["c1"]].bytes) = outcome["c1"].value)
    /\ [][store' # store
             => /\ pc["c1"] \in {"open", "dump"}
                /\ trace["c1"][Len(trace["c1"])] \in {"method", "open_wb"}
                /\ \A f \in CacheFiles \ {key["c1"]} : store'[f] = store[f]]_vars

\* a miss that called the method, stored a dataframe with rows and returned it
C15_Witness ==
    /\ Completed("c1")
    /\ trace["c1"] = MissPath
    /\ outcome["c1"].kind = "return"
    /\ Len(outcome["c1"].value) > 0
    /\ store[key["c1"]] = File(Pickle(outcome["c1"].value))

(***************************************************************************)
(* C16.  Every file a lookup finds is the complete pickle of a value the   *)
(* method returned: a caller that has found the file of its key never has  *)
(* an empty or truncated file before it, neither after a pickle.dump that  *)
(* failed part-way nor while another caller is writing the file.           *)
(***************************************************************************)
C16_NoPartialEntryVisible ==
    \A c \in Callers :
        pc[c] = "load" => /\ Loadable(store[key[c]].bytes)
                          /\ Unpickle(store[key[c]].bytes) \in DataFrames

\* what a caller can find: the file another caller has opened with 'wb' and
\* not yet written
FoundWhileWritten ==
    \E c, d \in Callers :
        /\ c # d
        /\ pc[c] = "load"
        /\ Writing(d, key[c])
        /\ store[key[c]] = File(<<>>)

(***************************************************************************)
(* C17.  The cache is sound for get_df: two calls that derive the same     *)
(* file name send the same request to the engine, with the same doc_type,  *)
(* the same columns, the same start and end (time of day included), and    *)
(* the same filter pairs in the same groups and in the same filter,        *)
(* positive or negative.                                                   *)
(***************************************************************************)
C17_SameKeySameRequest ==
    \A d1, d2 \in DocTypes : \A k1, k2 \in ColumnLists :
        cache_fname(p) = cache_fname(q)
            => ScanRequest(p, d1, k1) = ScanRequest(q, d2, k2)

\* what get_df calls reach: two calls with the same file name, the same
\* doc_type and columns, and datetimes of the same day at different times
SameKeyOtherTimeOfDay ==
    /\ cache_fname(p) = cache_fname(q)
    /\ p.start_date.t = "datetime" /\ q.start_date.t = "datetime"
    /\ \A d \in DocTypes : \A k \in ColumnLists :
          ScanRequest(p, d, k).range # ScanRequest(q, d, k).range

\* and two calls with the same file name whose filter pairs are grouped
\* differently or are in another filter
SameKeyOtherFilters ==
    /\ cache_fname(p) = cache_fname(q)
    /\ \A d \in DocTypes : \A k \in ColumnLists :
          ScanRequest(p, d, k).should # ScanRequest(q, d, k).should

(***************************************************************************)
(* C18.  The file name depends on the values of the parameters, not on how *)
(* they are passed: a call that passes parameters by position derives the  *)
(* same file name as the call that passes the same values by keyword, and  *)
(* two calls by position with different index names or different dates     *)
(* derive different file names.                                            *)
(***************************************************************************)
\* the numbers of parameters a caller of get_df can pass by position
Positional == 0..6

\* the calls denote different index names or different days
OtherIndexOrDates(c, d) ==
    \/ c.es_index_name # d.es_index_name
    \/ start_date(c) # start_date(d)
    \/ end_date(c) # end_date(d)

C18_PassingIrrelevant ==
    /\ \A c \in {p, q} : \A n \in Positional :
          cache_fname(kwargs(c, n)) = cache_fname(kwargs(c, 0))
    /\ \A n \in Positional \ {0} :
          OtherIndexOrDates(p, q) => cache_fname(kwargs(p, n)) # cache_fname(kwargs(q, n))

\* what the calls by position derive: the same file name whatever the index,
\* the dates and the filters
AllPositionalOneName ==
    \A c \in {p, q} :
        cache_fname(kwargs(c, 6)) = c.fn \o "_None_from_EmptyStartDate_to_EmptyEndDate"

(***************************************************************************)
(* C19.  With caching on, a get_df call on an index that does not exist    *)
(* stores the empty dataframe it returns like any other result, and a      *)
(* later call with the same file name returns that empty dataframe without *)
(* asking the engine, even after the index has been created and filled.    *)
(***************************************************************************)
\* the invocation before this one found no file and no index, and stored
\* and returned the empty dataframe
PrevStoredEmptyForNoIndex ==
    /\ prev.trace = <<"is_file", "get_df: no index", "open_wb", "dump">>
    /\ prev.outcome = Returned(<<>>)

C19_EmptyResultServedAfterIndexCreated ==
    /\ [](PrevStoredEmptyForNoIndex /\ SameKeyAgain /\ Completed("c1")
             => /\ outcome["c1"] = Returned(<<>>)
                /\ trace["c1"] = HitPath)
    /\ [][\A f \in CacheFiles :
             store[f].exists /\ Loadable(store[f].bytes) => store'[f] = store[f]]_vars

\* the later call returned the empty dataframe from the file although the
\* index now exists and holds documents
C19_Witness ==
    /\ PrevStoredEmptyForNoIndex
    /\ SameKeyAgain
    /\ Completed("c1")
    /\ outcome["c1"] = Returned(<<>>)
    /\ trace["c1"] = HitPath
    /\ indices[IndexOf(args["c1"])].exists
    /\ indices[IndexOf(args["c1"])].docs > 0

=============================================================================
